---- MODULE Spec2Model ----
(***************************************************************************)
(* Pathfinder-3d: the graph-search core (services/graphUtils).             *)
(*                                                                         *)
(* A search is a pure function of (graph, startId, endId).  The model      *)
(* draws the input in Init and then executes runDijkstra and, on the same  *)
(* input, runAStar, one main-loop iteration per step, keeping both         *)
(* results so that they can be compared.                                   *)
(***************************************************************************)
EXTENDS Integers, Sequences, FiniteSets, TLC

(***************************************************************************)
(* Bounds of the input space.                                              *)
(***************************************************************************)
MaxNodes == 3
MaxLinks == 3
MaxWeight == 1
MaxCoord == 1

(***************************************************************************)
(* JavaScript values.  A missing key of a Record reads as undefined, the   *)
(* predecessor of an unreached node is null.  Infinity is represented by   *)
(* a number larger than every finite sum of link weights of the model.     *)
(***************************************************************************)
Null == "null"
Undefined == "undefined"
Infinity == MaxWeight * (MaxLinks + MaxNodes) + 1

Get(rec, k) == IF k \in DOMAIN rec THEN rec[k] ELSE Undefined

Put(rec, k, v) == [x \in (DOMAIN rec) \cup {k} |-> IF x = k THEN v ELSE rec[x]]

Range(s) == {s[i] : i \in DOMAIN s}

(***************************************************************************)
(* Input space: graphs as generateRandomGraph names and places them.       *)
(* Nodes lie on the x axis at integer coordinates, so that every distance  *)
(* Math.sqrt returns is exact.                                             *)
(***************************************************************************)
(* Faulty variant: two consecutive nodes are given one identifier.         *)
NodeIdShared(i) == "node-" \o ToString(i \div 2)

NodeId(i) == "node-" \o ToString(i)

Coords == 0 .. MaxCoord

NodeIds(n) == {NodeId(i) : i \in 0 .. n - 1}

NodeLists(n) ==
    {[i \in 1 .. n |-> [id |-> NodeId(i - 1), x |-> xs[i], y |-> 0, z |-> 0,
                        isBomb |-> bs[i]]] :
        xs \in [1 .. n -> Coords], bs \in [1 .. n -> BOOLEAN]}

LinkValues(n) ==
    {[source |-> NodeId(i), target |-> NodeId(j), distance |-> w] :
        i \in 0 .. n - 1, j \in 0 .. n - 1, w \in 0 .. MaxWeight}

OrientedLinkValues(n) ==
    {l \in LinkValues(n) : \E i, j \in 0 .. n - 1 :
        i < j /\ l.source = NodeId(i) /\ l.target = NodeId(j)}

LinkLists(n) == UNION {[1 .. k -> OrientedLinkValues(n)] : k \in 0 .. MaxLinks}

GraphIds(g) == {g.nodes[i].id : i \in DOMAIN g.nodes}

NodeOf(g, id) == CHOOSE nd \in Range(g.nodes) : nd.id = id

VARIABLES graph, startId, endId, pc, distances, gScore, fScore, previous, pq,
          visitedSet, visitedHistory, resDijkstra, resAStar,
          arrivals, dequeued, adjList, nodeCountArg, connectionRadius,
          graphData, startNode, endNode, visitedNodes, visitedLinks,
          pathNodes, pathLinks, status, stats, activeAlgo, selectionMode,
          activeNodeId, activeNodeFromId, explodedNodeId, timerRef,
          timeouts, intervals, nextTimerId

vars == <<graph, startId, endId, pc, distances, gScore, fScore, previous, pq,
          visitedSet, visitedHistory, resDijkstra, resAStar,
          arrivals, dequeued, adjList, nodeCountArg, connectionRadius,
          graphData, startNode, endNode, visitedNodes, visitedLinks,
          pathNodes, pathLinks, status, stats, activeAlgo, selectionMode,
          activeNodeId, activeNodeFromId, explodedNodeId, timerRef,
          timeouts, intervals, nextTimerId>>

inputs == <<graph, startId, endId>>

(***************************************************************************)
(* The state of the operations that are not part of a search: the queue    *)
(* exercised on its own (arrivals, dequeued), the adjacency index built on *)
(* its own (adjList) and the parameters of generateRandomGraph.  A search  *)
(* leaves them alone, and they leave the state of a search alone.          *)
(***************************************************************************)
(* The state of the App component: its useState values, the ref holding    *)
(* the identifier of the replay timer (0 for null: both are falsy), and    *)
(* the callbacks the browser holds: the pending setTimeout callbacks in    *)
(* the order they were set (they share one delay), each with the values    *)
(* its closure captured, and the live setInterval callbacks by identifier. *)
(* stats is a list of at most one record, the empty list standing for      *)
(* null.                                                                   *)
app == <<graphData, startNode, endNode, visitedNodes, visitedLinks,
         pathNodes, pathLinks, status, stats, activeAlgo, selectionMode,
         activeNodeId, activeNodeFromId, explodedNodeId, timerRef,
         timeouts, intervals, nextTimerId>>

AppIdle ==
    /\ graphData = [nodes |-> <<>>, links |-> <<>>]
    /\ startNode = Null
    /\ endNode = Null
    /\ visitedNodes = {}
    /\ visitedLinks = {}
    /\ pathNodes = {}
    /\ pathLinks = {}
    /\ status = "IDLE"
    /\ stats = <<>>
    /\ activeAlgo = "DIJKSTRA"
    /\ selectionMode = Null
    /\ activeNodeId = Null
    /\ activeNodeFromId = Null
    /\ explodedNodeId = Null
    /\ timerRef = 0
    /\ timeouts = <<>>
    /\ intervals = <<>>
    /\ nextTimerId = 1

others == <<arrivals, dequeued, adjList, nodeCountArg, connectionRadius, app>>

OthersIdle ==
    /\ arrivals = <<>>
    /\ dequeued = <<>>
    /\ adjList = <<>>
    /\ nodeCountArg = 0
    /\ connectionRadius = 0
    /\ AppIdle

searchVars == <<startId, endId, distances, gScore, fScore, previous,
                visitedSet, visitedHistory, resDijkstra, resAStar>>

(***************************************************************************)
(* getDistance: Math.sqrt of the sum of the squared coordinate             *)
(* differences.  ISqrt is the exact square root.                           *)
(***************************************************************************)
ISqrt(sq) == CHOOSE r \in 0 .. sq : r * r = sq

getDistance(n1, n2) ==
    ISqrt((n1.x - n2.x) * (n1.x - n2.x) + (n1.y - n2.y) * (n1.y - n2.y)
          + (n1.z - n2.z) * (n1.z - n2.z))

(***************************************************************************)
(* PriorityQueue: enqueue pushes and re-sorts the whole array by priority  *)
(* (Array.prototype.sort is stable), dequeue shifts the first item.  The   *)
(* insertion binds its arguments (s, it) to their values once.             *)
(***************************************************************************)
(* Faulty variant: the item is placed before the items of equal priority.  *)
RECURSIVE InsertSortedBeforeTies(_, _)
InsertSortedBeforeTies(sorted, item) ==
    CHOOSE next \in
        {IF s = <<>> THEN <<it>>
         ELSE IF it.priority <= Head(s).priority THEN <<it>> \o s
         ELSE <<Head(s)>> \o InsertSortedBeforeTies(Tail(s), it) :
         s \in {sorted}, it \in {item}} : TRUE

RECURSIVE InsertSorted(_, _)
InsertSorted(sorted, item) ==
    CHOOSE next \in
        {IF s = <<>> THEN <<it>>
         ELSE IF it.priority < Head(s).priority THEN <<it>> \o s
         ELSE <<Head(s)>> \o InsertSorted(Tail(s), it) :
         s \in {sorted}, it \in {item}} : TRUE

RECURSIVE StableSort(_)
StableSort(items) ==
    IF items = <<>> THEN <<>>
    ELSE InsertSorted(StableSort(SubSeq(items, 1, Len(items) - 1)), items[Len(items)])

(* Faulty variant: the array is not sorted after the push (a FIFO queue).  *)
enqueueUnsorted(items, id, priority) ==
    Append(items, [id |-> id, priority |-> priority])

(* Faulty variant: a pending item of the same identifier is replaced.      *)
enqueueReplacing(items, id, priority) ==
    LET Others(x) == x.id # id
    IN StableSort(Append(SelectSeq(items, Others), [id |-> id, priority |-> priority]))

enqueue(items, id, priority) ==
    StableSort(Append(items, [id |-> id, priority |-> priority]))

(* dequeue: Array.prototype.shift.  The returned value is a list of at     *)
(* most one item, the empty list standing for undefined; items is the      *)
(* array left behind.                                                      *)
dequeue(items) ==
    IF items = <<>> THEN [value |-> <<>>, items |-> <<>>]
    ELSE [value |-> <<Head(items)>>, items |-> Tail(items)]

isEmpty(items) == Len(items) = 0

(***************************************************************************)
(* buildAdjacencyList                                                      *)
(***************************************************************************)
(* adj is an object literal: reading adj[k] for a k that is no own key     *)
(* finds the property Object.prototype gives every object, if it has one   *)
(* of that name, and such a property is truthy.  InheritedKeys are names   *)
(* of such properties.                                                     *)
InheritedKeys == {"constructor", "toString"}

IsTruthy(adj, k) == k \in DOMAIN adj \/ k \in InheritedKeys

(* Faulty variant: the entry is pushed to the list of the source only.     *)
RECURSIVE AddLinksDirected(_, _)
AddLinksDirected(adj, links) ==
    IF links = <<>> THEN adj
    ELSE LET l == Head(links)
             sourceId == l.source
             targetId == l.target
         IN IF IsTruthy(adj, sourceId) /\ IsTruthy(adj, targetId)
            THEN LET a1 == [adj EXCEPT ![sourceId] =
                               Append(@, [id |-> targetId, weight |-> l.distance])]
                 IN AddLinksDirected(a1, Tail(links))
            ELSE AddLinksDirected(adj, Tail(links))

RECURSIVE AddLinks(_, _)
AddLinks(adj, links) ==
    IF links = <<>> THEN adj
    ELSE LET l == Head(links)
             sourceId == l.source
             targetId == l.target
         IN IF IsTruthy(adj, sourceId) /\ IsTruthy(adj, targetId)
            THEN LET a1 == [adj EXCEPT ![sourceId] =
                               Append(@, [id |-> targetId, weight |-> l.distance])]
                     a2 == [a1 EXCEPT ![targetId] =
                               Append(@, [id |-> sourceId, weight |-> l.distance])]
                 IN AddLinks(a2, Tail(links))
            ELSE AddLinks(adj, Tail(links))

(* push is called on adj[sourceId] and adj[targetId] of every link that    *)
(* passes the test.  An inherited property is no array and has no push:    *)
(* the call throws a TypeError and buildAdjacencyList returns nothing.     *)
AddLinksThrows(adj, links) ==
    \E i \in DOMAIN links :
        /\ IsTruthy(adj, links[i].source) /\ IsTruthy(adj, links[i].target)
        /\ links[i].source \notin DOMAIN adj \/ links[i].target \notin DOMAIN adj

buildAdjacencyList(g) == AddLinks([id \in GraphIds(g) |-> <<>>], g.links)

buildAdjacencyListThrows(g) == AddLinksThrows([id \in GraphIds(g) |-> <<>>], g.links)

(***************************************************************************)
(* The hazard rule shared by both searches (the BOMB CHECK).               *)
(***************************************************************************)
(* Faulty variants of the hazard rule: the flag ignored, the exemption     *)
(* inverted, the exemption missing.                                       *)
IsHazardAnyNode(g, s, e, u) ==
    /\ u \in GraphIds(g)
    /\ u # s
    /\ u # e

IsHazardOnlyEnds(g, s, e, u) ==
    /\ u \in GraphIds(g)
    /\ NodeOf(g, u).isBomb
    /\ (u = s \/ u = e)

(* Faulty variant: no node is a hazard, flagged nodes are expanded.        *)
IsHazardNever(g, s, e, u) == FALSE

IsHazardNoExemption(g, s, e, u) ==
    /\ u \in GraphIds(g)
    /\ NodeOf(g, u).isBomb

IsHazard(g, s, e, u) ==
    /\ u \in GraphIds(g)
    /\ NodeOf(g, u).isBomb
    /\ u # s
    /\ u # e

NoResult == [path |-> <<>>, visitedHistory |-> <<>>, cost |-> 0,
             explodedAt |-> Undefined, returned |-> FALSE]

Result(path, history, cost, exploded) ==
    [path |-> path, visitedHistory |-> history, cost |-> cost,
     explodedAt |-> exploded, returned |-> TRUE]

(***************************************************************************)
(* Path reconstruction, the same code at the end of both searches.         *)
(***************************************************************************)
RECURSIVE WalkBack(_, _, _, _)
WalkBack(prev, path, curr, nodeCount) ==
    IF curr = Null THEN path
    ELSE LET p2 == <<curr>> \o path
             c2 == Get(prev, curr)
         IN IF Len(p2) > nodeCount THEN p2 ELSE WalkBack(prev, p2, c2, nodeCount)

(* Faulty variant: neither the Infinity test nor the head test.            *)
ReconstructUnchecked(g, s, e, score, prev, history) ==
    Result(WalkBack(prev, <<>>, e, Len(g.nodes)), history, Get(score, e), Undefined)

Reconstruct(g, s, e, score, prev, history) ==
    IF e \in DOMAIN score /\ score[e] = Infinity
    THEN Result(<<>>, history, 0, Undefined)
    ELSE LET path == WalkBack(prev, <<>>, e, Len(g.nodes))
         IN IF path[1] # s THEN Result(<<>>, history, 0, Undefined)
            ELSE Result(path, history, Get(score, e), Undefined)

(***************************************************************************)
(* runDijkstra.  The locals of one iteration (u, adj, the state after the  *)
(* relaxation) are bound by quantification over a one-element set, which   *)
(* evaluates each of them once; the relaxation binds its state and the     *)
(* neighbours still to visit (s, ns) the same way.                         *)
(***************************************************************************)
(* Faulty variant: recorded nodes are not skipped on extraction.           *)
IsStaleNever(visited, u) == FALSE

IsStale(visited, u) == u \in visited

(* The test that ends a main loop: u === endId.  Faulty variant: the loop  *)
(* goes on until the queue is empty.                                       *)
IsEndNever(e, u) == FALSE

IsEnd(e, u) == u = e

DijkstraInit(g, s) ==
    /\ distances = Put([id \in GraphIds(g) |-> Infinity], s, 0)
    /\ previous = [id \in GraphIds(g) |-> Null]
    /\ visitedHistory = <<>>
    /\ pq = enqueue(<<>>, s, 0)
    /\ visitedSet = {}

(* Faulty variants of the relaxation: only unreached neighbours relaxed,   *)
(* the predecessor overwritten without an improvement, the predecessor     *)
(* link written the wrong way round.                                       *)
RECURSIVE DijkstraRelaxFirstOnly(_, _, _)
DijkstraRelaxFirstOnly(u, nbrs, st) ==
    IF nbrs = <<>> THEN st
    ELSE CHOOSE next \in
        {LET neighbor == Head(ns)
             alt == s.dist[u] + neighbor.weight
         IN IF s.dist[neighbor.id] = Infinity
            THEN DijkstraRelaxFirstOnly(u, Tail(ns),
                     [dist |-> [s.dist EXCEPT ![neighbor.id] = alt],
                      prev |-> [s.prev EXCEPT ![neighbor.id] = u],
                      pq |-> enqueue(s.pq, neighbor.id, alt)])
            ELSE DijkstraRelaxFirstOnly(u, Tail(ns), s) :
         s \in {st}, ns \in {nbrs}} : TRUE

RECURSIVE DijkstraRelaxPrevAlways(_, _, _)
DijkstraRelaxPrevAlways(u, nbrs, st) ==
    IF nbrs = <<>> THEN st
    ELSE CHOOSE next \in
        {LET neighbor == Head(ns)
             alt == s.dist[u] + neighbor.weight
         IN IF alt < s.dist[neighbor.id]
            THEN DijkstraRelaxPrevAlways(u, Tail(ns),
                     [dist |-> [s.dist EXCEPT ![neighbor.id] = alt],
                      prev |-> [s.prev EXCEPT ![neighbor.id] = u],
                      pq |-> enqueue(s.pq, neighbor.id, alt)])
            ELSE DijkstraRelaxPrevAlways(u, Tail(ns),
                     [s EXCEPT !.prev = [s.prev EXCEPT ![neighbor.id] = u]]) :
         s \in {st}, ns \in {nbrs}} : TRUE

RECURSIVE DijkstraRelaxPrevSwapped(_, _, _)
DijkstraRelaxPrevSwapped(u, nbrs, st) ==
    IF nbrs = <<>> THEN st
    ELSE CHOOSE next \in
        {LET neighbor == Head(ns)
             alt == s.dist[u] + neighbor.weight
         IN IF alt < s.dist[neighbor.id]
            THEN DijkstraRelaxPrevSwapped(u, Tail(ns),
                     [dist |-> [s.dist EXCEPT ![neighbor.id] = alt],
                      prev |-> [s.prev EXCEPT ![u] = neighbor.id],
                      pq |-> enqueue(s.pq, neighbor.id, alt)])
            ELSE DijkstraRelaxPrevSwapped(u, Tail(ns), s) :
         s \in {st}, ns \in {nbrs}} : TRUE

RECURSIVE DijkstraRelax(_, _, _)
DijkstraRelax(u, nbrs, st) ==
    IF nbrs = <<>> THEN st
    ELSE CHOOSE next \in
        {LET neighbor == Head(ns)
             alt == s.dist[u] + neighbor.weight
         IN IF alt < s.dist[neighbor.id]
            THEN DijkstraRelax(u, Tail(ns),
                     [dist |-> [s.dist EXCEPT ![neighbor.id] = alt],
                      prev |-> [s.prev EXCEPT ![neighbor.id] = u],
                      pq |-> enqueue(s.pq, neighbor.id, alt)])
            ELSE DijkstraRelax(u, Tail(ns), s) :
         s \in {st}, ns \in {nbrs}} : TRUE

DijkstraStep ==
    /\ pc = "dijkstra"
    /\ ~isEmpty(pq)
    /\ \E u \in {Head(pq).id}, rest \in {Tail(pq)},
          adj \in {buildAdjacencyList(graph)} :
       \E step \in {[id |-> u, from |-> Get(previous, u)]} :
          IF IsStale(visitedSet, u)
          THEN /\ pq' = rest
               /\ UNCHANGED <<pc, distances, previous, visitedSet, visitedHistory,
                              resDijkstra>>
          ELSE /\ visitedSet' = visitedSet \cup {u}
               /\ visitedHistory' = Append(visitedHistory, step)
               /\ IF IsHazard(graph, startId, endId, u)
                  THEN /\ resDijkstra' = Result(<<>>, visitedHistory', 0, u)
                       /\ pc' = "dijkstraReturned"
                       /\ pq' = rest
                       /\ UNCHANGED <<distances, previous>>
                  ELSE IF IsEnd(endId, u)
                  THEN /\ pc' = "dijkstraPath"
                       /\ pq' = rest
                       /\ UNCHANGED <<distances, previous, resDijkstra>>
                  ELSE \E st \in {IF u \in DOMAIN adj
                                 THEN DijkstraRelax(u, adj[u],
                                          [dist |-> distances, prev |-> previous,
                                           pq |-> rest])
                                 ELSE [dist |-> distances, prev |-> previous,
                                       pq |-> rest]} :
                          /\ distances' = st.dist
                          /\ previous' = st.prev
                          /\ pq' = st.pq
                          /\ UNCHANGED <<pc, resDijkstra>>
    /\ UNCHANGED others
    /\ UNCHANGED <<inputs, gScore, fScore, resAStar>>

DijkstraFinish ==
    /\ \/ pc = "dijkstraPath"
       \/ pc = "dijkstra" /\ isEmpty(pq)
    /\ resDijkstra' = Reconstruct(graph, startId, endId, distances, previous,
                                  visitedHistory)
    /\ pc' = "dijkstraReturned"
    /\ UNCHANGED others
    /\ UNCHANGED <<inputs, distances, gScore, fScore, previous, pq, visitedSet,
                   visitedHistory, resAStar>>

(***************************************************************************)
(* runAStar                                                                *)
(***************************************************************************)
(* Faulty variant: every extraction is recorded.                           *)
IsUnrecordedAlways(visited, u) == TRUE

IsUnrecorded(visited, u) == u \notin visited

heuristic(g, e, id) ==
    IF id \notin GraphIds(g) THEN 0 ELSE getDistance(NodeOf(g, id), NodeOf(g, e))

(* Faulty variants of the relaxation: the g-score of u left out of the     *)
(* tentative score, only unreached neighbours relaxed.                     *)
RECURSIVE AStarRelaxEdgeOnly(_, _, _, _, _)
AStarRelaxEdgeOnly(g, e, u, nbrs, st) ==
    IF nbrs = <<>> THEN st
    ELSE CHOOSE next \in
        {LET neighbor == Head(ns)
             tentativeG == neighbor.weight
             f == tentativeG + heuristic(g, e, neighbor.id)
         IN IF tentativeG < s.g[neighbor.id]
            THEN AStarRelaxEdgeOnly(g, e, u, Tail(ns),
                     [prev |-> [s.prev EXCEPT ![neighbor.id] = u],
                      g |-> [s.g EXCEPT ![neighbor.id] = tentativeG],
                      f |-> [s.f EXCEPT ![neighbor.id] = f],
                      pq |-> enqueue(s.pq, neighbor.id, f)])
            ELSE AStarRelaxEdgeOnly(g, e, u, Tail(ns), s) :
         s \in {st}, ns \in {nbrs}} : TRUE

RECURSIVE AStarRelaxFirstOnly(_, _, _, _, _)
AStarRelaxFirstOnly(g, e, u, nbrs, st) ==
    IF nbrs = <<>> THEN st
    ELSE CHOOSE next \in
        {LET neighbor == Head(ns)
             tentativeG == s.g[u] + neighbor.weight
             f == tentativeG + heuristic(g, e, neighbor.id)
         IN IF s.g[neighbor.id] = Infinity
            THEN AStarRelaxFirstOnly(g, e, u, Tail(ns),
                     [prev |-> [s.prev EXCEPT ![neighbor.id] = u],
                      g |-> [s.g EXCEPT ![neighbor.id] = tentativeG],
                      f |-> [s.f EXCEPT ![neighbor.id] = f],
                      pq |-> enqueue(s.pq, neighbor.id, f)])
            ELSE AStarRelaxFirstOnly(g, e, u, Tail(ns), s) :
         s \in {st}, ns \in {nbrs}} : TRUE

(* Faulty variant: a neighbour is relaxed again on an equal score.         *)
RECURSIVE AStarRelaxOnTies(_, _, _, _, _)
AStarRelaxOnTies(g, e, u, nbrs, st) ==
    IF nbrs = <<>> THEN st
    ELSE CHOOSE next \in
        {LET neighbor == Head(ns)
             tentativeG == s.g[u] + neighbor.weight
             f == tentativeG + heuristic(g, e, neighbor.id)
         IN IF tentativeG <= s.g[neighbor.id]
            THEN AStarRelaxOnTies(g, e, u, Tail(ns),
                     [prev |-> [s.prev EXCEPT ![neighbor.id] = u],
                      g |-> [s.g EXCEPT ![neighbor.id] = tentativeG],
                      f |-> [s.f EXCEPT ![neighbor.id] = f],
                      pq |-> enqueue(s.pq, neighbor.id, f)])
            ELSE AStarRelaxOnTies(g, e, u, Tail(ns), s) :
         s \in {st}, ns \in {nbrs}} : TRUE

RECURSIVE AStarRelax(_, _, _, _, _)
AStarRelax(g, e, u, nbrs, st) ==
    IF nbrs = <<>> THEN st
    ELSE CHOOSE next \in
        {LET neighbor == Head(ns)
             tentativeG == s.g[u] + neighbor.weight
             f == tentativeG + heuristic(g, e, neighbor.id)
         IN IF tentativeG < s.g[neighbor.id]
            THEN AStarRelax(g, e, u, Tail(ns),
                     [prev |-> [s.prev EXCEPT ![neighbor.id] = u],
                      g |-> [s.g EXCEPT ![neighbor.id] = tentativeG],
                      f |-> [s.f EXCEPT ![neighbor.id] = f],
                      pq |-> enqueue(s.pq, neighbor.id, f)])
            ELSE AStarRelax(g, e, u, Tail(ns), s) :
         s \in {st}, ns \in {nbrs}} : TRUE

AStarStart ==
    /\ pc = "dijkstraReturned"
    /\ IF endId \notin GraphIds(graph)
       THEN /\ resAStar' = Result(<<>>, <<>>, 0, Undefined)
            /\ pc' = "done"
            /\ UNCHANGED <<gScore, fScore, previous, pq, visitedSet, visitedHistory>>
       ELSE LET h0 == heuristic(graph, endId, startId)
            IN /\ gScore' = Put([id \in GraphIds(graph) |-> Infinity], startId, 0)
               /\ fScore' = Put([id \in GraphIds(graph) |-> Infinity], startId, h0)
               /\ previous' = [id \in GraphIds(graph) |-> Null]
               /\ visitedHistory' = <<>>
               /\ pq' = enqueue(<<>>, startId, h0)
               /\ visitedSet' = {}
               /\ pc' = "astar"
               /\ UNCHANGED resAStar
    /\ UNCHANGED others
    /\ UNCHANGED <<inputs, distances, resDijkstra>>

AStarStep ==
    /\ pc = "astar"
    /\ ~isEmpty(pq)
    /\ \E u \in {Head(pq).id}, rest \in {Tail(pq)},
          adj \in {buildAdjacencyList(graph)} :
       \E step \in {[id |-> u, from |-> Get(previous, u)]} :
          IF IsHazard(graph, startId, endId, u)
          THEN /\ visitedHistory' = Append(visitedHistory, step)
               /\ resAStar' = Result(<<>>, visitedHistory', 0, u)
               /\ pc' = "done"
               /\ pq' = rest
               /\ UNCHANGED <<gScore, fScore, previous, visitedSet>>
          ELSE IF IsEnd(endId, u)
          THEN /\ visitedHistory' = Append(visitedHistory, step)
               /\ pc' = "astarPath"
               /\ pq' = rest
               /\ UNCHANGED <<gScore, fScore, previous, visitedSet, resAStar>>
          ELSE \E st \in {IF u \in DOMAIN adj
                         THEN AStarRelax(graph, endId, u, adj[u],
                                  [prev |-> previous, g |-> gScore, f |-> fScore,
                                   pq |-> rest])
                         ELSE [prev |-> previous, g |-> gScore, f |-> fScore,
                               pq |-> rest]} :
                  /\ IF IsUnrecorded(visitedSet, u)
                     THEN /\ visitedHistory' = Append(visitedHistory, step)
                          /\ visitedSet' = visitedSet \cup {u}
                     ELSE UNCHANGED <<visitedHistory, visitedSet>>
                  /\ previous' = st.prev
                  /\ gScore' = st.g
                  /\ fScore' = st.f
                  /\ pq' = st.pq
                  /\ UNCHANGED <<pc, resAStar>>
    /\ UNCHANGED others
    /\ UNCHANGED <<inputs, distances, resDijkstra>>

AStarFinish ==
    /\ \/ pc = "astarPath"
       \/ pc = "astar" /\ isEmpty(pq)
    /\ resAStar' = Reconstruct(graph, startId, endId, gScore, previous, visitedHistory)
    /\ pc' = "done"
    /\ UNCHANGED others
    /\ UNCHANGED <<inputs, distances, gScore, fScore, previous, pq, visitedSet,
                   visitedHistory, resDijkstra>>

(***************************************************************************)
(* The two searches as functions of their arguments, for the callers that  *)
(* use a whole result at once: the loops of DijkstraStep and AStarStep run *)
(* to their end, then the reconstruction.                                  *)
(***************************************************************************)
RECURSIVE DijkstraLoop(_, _, _, _, _)
DijkstraLoop(g, s, e, adj, st) ==
    IF isEmpty(st.pq)
    THEN Reconstruct(g, s, e, st.dist, st.prev, st.history)
    ELSE LET u == Head(st.pq).id
             rest == Tail(st.pq)
             history == Append(st.history, [id |-> u, from |-> Get(st.prev, u)])
         IN IF IsStale(st.visited, u)
            THEN DijkstraLoop(g, s, e, adj, [st EXCEPT !.pq = rest])
            ELSE IF IsHazard(g, s, e, u)
            THEN Result(<<>>, history, 0, u)
            ELSE IF IsEnd(e, u)
            THEN Reconstruct(g, s, e, st.dist, st.prev, history)
            ELSE LET r == IF u \in DOMAIN adj
                          THEN DijkstraRelax(u, adj[u],
                                   [dist |-> st.dist, prev |-> st.prev, pq |-> rest])
                          ELSE [dist |-> st.dist, prev |-> st.prev, pq |-> rest]
                 IN DijkstraLoop(g, s, e, adj,
                        [dist |-> r.dist, prev |-> r.prev, pq |-> r.pq,
                         visited |-> st.visited \cup {u}, history |-> history])

runDijkstra(g, s, e) ==
    DijkstraLoop(g, s, e, buildAdjacencyList(g),
        [dist |-> Put([id \in GraphIds(g) |-> Infinity], s, 0),
         prev |-> [id \in GraphIds(g) |-> Null],
         pq |-> enqueue(<<>>, s, 0),
         visited |-> {},
         history |-> <<>>])

RECURSIVE AStarLoop(_, _, _, _, _)
AStarLoop(g, s, e, adj, st) ==
    IF isEmpty(st.pq)
    THEN Reconstruct(g, s, e, st.g, st.prev, st.history)
    ELSE LET u == Head(st.pq).id
             rest == Tail(st.pq)
             history == Append(st.history, [id |-> u, from |-> Get(st.prev, u)])
         IN IF IsHazard(g, s, e, u)
            THEN Result(<<>>, history, 0, u)
            ELSE IF IsEnd(e, u)
            THEN Reconstruct(g, s, e, st.g, st.prev, history)
            ELSE LET r == IF u \in DOMAIN adj
                          THEN AStarRelax(g, e, u, adj[u],
                                   [prev |-> st.prev, g |-> st.g, f |-> st.f,
                                    pq |-> rest])
                          ELSE [prev |-> st.prev, g |-> st.g, f |-> st.f, pq |-> rest]
                 IN AStarLoop(g, s, e, adj,
                        [prev |-> r.prev, g |-> r.g, f |-> r.f, pq |-> r.pq,
                         visited |-> IF IsUnrecorded(st.visited, u)
                                     THEN st.visited \cup {u} ELSE st.visited,
                         history |-> IF IsUnrecorded(st.visited, u)
                                     THEN history ELSE st.history])

runAStar(g, s, e) ==
    IF e \notin GraphIds(g)
    THEN Result(<<>>, <<>>, 0, Undefined)
    ELSE AStarLoop(g, s, e, buildAdjacencyList(g),
             [prev |-> [id \in GraphIds(g) |-> Null],
              g |-> Put([id \in GraphIds(g) |-> Infinity], s, 0),
              f |-> Put([id \in GraphIds(g) |-> Infinity], s, heuristic(g, e, s)),
              pq |-> enqueue(<<>>, s, heuristic(g, e, s)),
              visited |-> {},
              history |-> <<>>])

(***************************************************************************)
(* The inputs.  The searches compare identifiers only for equality and the *)
(* set of graphs is closed under renaming the nodes, so the start is taken *)
(* to be the first node of the list; the end is any node of the graph.     *)
(***************************************************************************)
Init ==
    /\ \E n \in 1 .. MaxNodes :
          /\ \E ns \in NodeLists(n), ls \in LinkLists(n) :
                graph = [nodes |-> ns, links |-> ls]
          /\ startId = NodeId(0)
          /\ endId \in NodeIds(n)
    /\ pc = "dijkstra"
    /\ DijkstraInit(graph, startId)
    /\ gScore = <<>>
    /\ fScore = <<>>
    /\ resDijkstra = NoResult
    /\ resAStar = NoResult
    /\ OthersIdle

(***************************************************************************)
(* The inputs generateRandomGraph can return: one link per chosen pair of  *)
(* nodes, in the order of its two loops, weighted by the distance between  *)
(* the two positions; no node is flagged.                                  *)
(***************************************************************************)
MetricNodes == 4
MetricCoord == 2

MetricNodeLists ==
    {[i \in 1 .. MetricNodes |->
        [id |-> NodeId(i - 1), x |-> xs[i], y |-> 0, z |-> 0, isBomb |-> FALSE]] :
        xs \in [1 .. MetricNodes -> 0 .. MetricCoord]}

Pairs == {<<i, j>> \in (1 .. MetricNodes) \X (1 .. MetricNodes) : i < j}

RECURSIVE MetricLinks(_, _, _, _)
MetricLinks(ns, chosen, i, j) ==
    IF i > MetricNodes THEN <<>>
    ELSE IF j > MetricNodes THEN MetricLinks(ns, chosen, i + 1, i + 2)
    ELSE IF <<i, j>> \in chosen
    THEN <<[source |-> ns[i].id, target |-> ns[j].id,
            distance |-> getDistance(ns[i], ns[j])]>>
         \o MetricLinks(ns, chosen, i, j + 1)
    ELSE MetricLinks(ns, chosen, i, j + 1)

InitMetric ==
    /\ \E ns \in MetricNodeLists, chosen \in SUBSET Pairs :
          graph = [nodes |-> ns, links |-> MetricLinks(ns, chosen, 1, 2)]
    /\ startId = NodeId(0)
    /\ endId \in NodeIds(MetricNodes)
    /\ pc = "dijkstra"
    /\ DijkstraInit(graph, startId)
    /\ gScore = <<>>
    /\ fScore = <<>>
    /\ resDijkstra = NoResult
    /\ resAStar = NoResult
    /\ OthersIdle

(***************************************************************************)
(* Calls in which the start, the end or both name no node of the graph:    *)
(* the graph may be empty, and the identifiers a caller can pass besides   *)
(* the graph's own are the next two generateRandomGraph would hand out.    *)
(***************************************************************************)
MissingNodes == 2

InitMissing ==
    /\ \E n \in 0 .. MissingNodes :
          /\ \E ns \in NodeLists(n), ls \in LinkLists(n) :
                graph = [nodes |-> ns, links |-> ls]
          /\ startId \in NodeIds(n + 2)
          /\ endId \in NodeIds(n + 2)
          /\ startId \notin NodeIds(n) \/ endId \notin NodeIds(n)
    /\ pc = "dijkstra"
    /\ DijkstraInit(graph, startId)
    /\ gScore = <<>>
    /\ fScore = <<>>
    /\ resDijkstra = NoResult
    /\ resAStar = NoResult
    /\ OthersIdle

(***************************************************************************)
(* The PriorityQueue on its own: any sequence of enqueue and dequeue.      *)
(* arrivals lists the pending items in the order they were enqueued: an    *)
(* enqueue appends its item, a dequeue removes the first arrival equal to  *)
(* the item it returned.  dequeued is the value of the last dequeue.       *)
(***************************************************************************)
MaxQueue == 3
MaxPriority == 2

QueueItems == [id : NodeIds(MaxNodes), priority : 0 .. MaxPriority]

SearchIdle ==
    /\ graph = [nodes |-> <<>>, links |-> <<>>]
    /\ startId = Null
    /\ endId = Null
    /\ distances = <<>>
    /\ gScore = <<>>
    /\ fScore = <<>>
    /\ previous = <<>>
    /\ visitedSet = {}
    /\ visitedHistory = <<>>
    /\ resDijkstra = NoResult
    /\ resAStar = NoResult

RECURSIVE RemoveFirst(_, _)
RemoveFirst(seq, x) ==
    IF seq = <<>> THEN <<>>
    ELSE IF Head(seq) = x THEN Tail(seq)
    ELSE <<Head(seq)>> \o RemoveFirst(Tail(seq), x)

InitPQ ==
    /\ SearchIdle
    /\ AppIdle
    /\ pq = <<>>
    /\ pc = "queue"
    /\ arrivals = <<>>
    /\ dequeued = <<>>
    /\ adjList = <<>>
    /\ nodeCountArg = 0
    /\ connectionRadius = 0

Enqueue ==
    /\ pc \in {"queue", "enqueued", "dequeued"}
    /\ Len(arrivals) < MaxQueue
    /\ \E item \in QueueItems :
          /\ pq' = enqueue(pq, item.id, item.priority)
          /\ arrivals' = Append(arrivals, item)
    /\ pc' = "enqueued"
    /\ UNCHANGED <<graph, searchVars, app, dequeued, adjList, nodeCountArg, connectionRadius>>

Dequeue ==
    /\ pc \in {"queue", "enqueued", "dequeued"}
    /\ pq' = dequeue(pq).items
    /\ dequeued' = dequeue(pq).value
    /\ arrivals' = IF dequeued' = <<>> THEN arrivals
                   ELSE RemoveFirst(arrivals, dequeued'[1])
    /\ pc' = "dequeued"
    /\ UNCHANGED <<graph, searchVars, app, adjList, nodeCountArg, connectionRadius>>

NextPQ == Enqueue \/ Dequeue

SpecPQ == InitPQ /\ [][NextPQ]_vars

(***************************************************************************)
(* buildAdjacencyList on its own.  The links are stored in either          *)
(* orientation, may join a node to itself, may repeat, and may name an     *)
(* endpoint that is no node of the graph: the next identifier              *)
(* generateRandomGraph would hand out, or the name of a property every     *)
(* object inherits.                                                        *)
(***************************************************************************)
AdjNodes == 2
AdjLinks == 3

AdjNodeList(n) ==
    [i \in 1 .. n |-> [id |-> NodeId(i - 1), x |-> 0, y |-> 0, z |-> 0, isBomb |-> FALSE]]

EndpointNames(n) == NodeIds(n + 1) \cup {"constructor"}

AdjLinkValues(n) ==
    [source : EndpointNames(n), target : EndpointNames(n), distance : 0 .. MaxWeight]

InitAdj ==
    /\ \E n \in 0 .. AdjNodes :
          \E ls \in UNION {[1 .. k -> AdjLinkValues(n)] : k \in 0 .. AdjLinks} :
              graph = [nodes |-> AdjNodeList(n), links |-> ls]
    /\ pc = "build"
    /\ AppIdle
    /\ adjList = <<>>
    /\ startId = Null
    /\ endId = Null
    /\ distances = <<>>
    /\ gScore = <<>>
    /\ fScore = <<>>
    /\ previous = <<>>
    /\ visitedSet = {}
    /\ visitedHistory = <<>>
    /\ resDijkstra = NoResult
    /\ resAStar = NoResult
    /\ pq = <<>>
    /\ arrivals = <<>>
    /\ dequeued = <<>>
    /\ nodeCountArg = 0
    /\ connectionRadius = 0

BuildAdjacency ==
    /\ pc = "build"
    /\ IF buildAdjacencyListThrows(graph)
       THEN /\ pc' = "TypeError"
            /\ UNCHANGED adjList
       ELSE /\ pc' = "built"
            /\ adjList' = buildAdjacencyList(graph)
    /\ UNCHANGED <<graph, searchVars, app, pq, arrivals, dequeued, nodeCountArg,
                   connectionRadius>>

SpecAdj == InitAdj /\ [][BuildAdjacency]_vars

(***************************************************************************)
(* generateRandomGraph(nodeCount, connectionRadius).  Every Math.random()  *)
(* is a free choice: a coordinate on the x axis (so that every distance is *)
(* exact) and whether the node is flagged.  GenNode is one iteration of    *)
(* the first loop, GenLinks the two nested loops over the pairs.           *)
(***************************************************************************)
GenNodes == 3
GenCoord == 2
GenRadius == 3

(* Faulty variant: a pair at distance exactly connectionRadius is linked.  *)
RECURSIVE RadiusLinksInclusive(_, _, _, _)
RadiusLinksInclusive(ns, radius, i, j) ==
    IF i > Len(ns) THEN <<>>
    ELSE IF j > Len(ns) THEN RadiusLinksInclusive(ns, radius, i + 1, i + 2)
    ELSE LET dist == getDistance(ns[i], ns[j])
         IN IF dist <= radius
            THEN <<[source |-> ns[i].id, target |-> ns[j].id, distance |-> dist]>>
                 \o RadiusLinksInclusive(ns, radius, i, j + 1)
            ELSE RadiusLinksInclusive(ns, radius, i, j + 1)

RECURSIVE RadiusLinks(_, _, _, _)
RadiusLinks(ns, radius, i, j) ==
    IF i > Len(ns) THEN <<>>
    ELSE IF j > Len(ns) THEN RadiusLinks(ns, radius, i + 1, i + 2)
    ELSE LET dist == getDistance(ns[i], ns[j])
         IN IF dist < radius
            THEN <<[source |-> ns[i].id, target |-> ns[j].id, distance |-> dist]>>
                 \o RadiusLinks(ns, radius, i, j + 1)
            ELSE RadiusLinks(ns, radius, i, j + 1)

InitGen ==
    /\ nodeCountArg \in 0 .. GenNodes
    /\ connectionRadius \in 0 .. GenRadius
    /\ graph = [nodes |-> <<>>, links |-> <<>>]
    /\ pc = "genNodes"
    /\ AppIdle
    /\ startId = Null
    /\ endId = Null
    /\ distances = <<>>
    /\ gScore = <<>>
    /\ fScore = <<>>
    /\ previous = <<>>
    /\ visitedSet = {}
    /\ visitedHistory = <<>>
    /\ resDijkstra = NoResult
    /\ resAStar = NoResult
    /\ pq = <<>>
    /\ arrivals = <<>>
    /\ dequeued = <<>>
    /\ adjList = <<>>

GenNode ==
    /\ pc = "genNodes"
    /\ Len(graph.nodes) < nodeCountArg
    /\ \E x \in 0 .. GenCoord, isBomb \in BOOLEAN :
          graph' = [graph EXCEPT !.nodes =
                       Append(@, [id |-> NodeId(Len(graph.nodes)), x |-> x, y |-> 0,
                                  z |-> 0, isBomb |-> isBomb])]
    /\ UNCHANGED <<pc, searchVars, app, pq, arrivals, dequeued, adjList, nodeCountArg,
                   connectionRadius>>

GenLinks ==
    /\ pc = "genNodes"
    /\ ~(Len(graph.nodes) < nodeCountArg)
    /\ graph' = [graph EXCEPT !.links =
                    RadiusLinks(graph.nodes, connectionRadius, 1, 2)]
    /\ pc' = "generated"
    /\ UNCHANGED <<searchVars, app, pq, arrivals, dequeued, adjList, nodeCountArg,
                   connectionRadius>>

NextGen == GenNode \/ GenLinks

SpecGen == InitGen /\ [][NextGen]_vars

Next ==
    \/ DijkstraStep
    \/ DijkstraFinish
    \/ AStarStart
    \/ AStarStep
    \/ AStarFinish

Spec == Init /\ [][Next]_vars

SpecMetric == InitMetric /\ [][Next]_vars

SpecMissing == InitMissing /\ [][Next]_vars

(***************************************************************************)
(* Both searches are synchronous loops on one thread: a step that can be   *)
(* taken is taken, which is weak fairness of Next.  No node is flagged, so *)
(* that no search is cut short by a hazard.                                *)
(***************************************************************************)
InitLive ==
    /\ \E n \in 1 .. MaxNodes :
          /\ \E ns \in NodeLists(n), ls \in LinkLists(n) :
                /\ \A i \in 1 .. n : ~ns[i].isBomb
                /\ graph = [nodes |-> ns, links |-> ls]
          /\ startId = NodeId(0)
          /\ endId \in NodeIds(n)
    /\ pc = "dijkstra"
    /\ DijkstraInit(graph, startId)
    /\ gScore = <<>>
    /\ fScore = <<>>
    /\ resDijkstra = NoResult
    /\ resAStar = NoResult
    /\ OthersIdle

SpecLive == InitLive /\ [][Next]_vars /\ WF_vars(Next)

(***************************************************************************)
(* The inputs on which the heuristic of runAStar is 0 for every node: all  *)
(* nodes at one position, the weights of the links free.  At most one node *)
(* is flagged.                                                             *)
(***************************************************************************)
ZeroNodes == 4

ZeroNodeLists ==
    {[i \in 1 .. ZeroNodes |->
        [id |-> NodeId(i - 1), x |-> 0, y |-> 0, z |-> 0, isBomb |-> (i = b)]] :
        b \in 0 .. ZeroNodes}

InitZero ==
    /\ \E ns \in ZeroNodeLists, ls \in LinkLists(ZeroNodes) :
          graph = [nodes |-> ns, links |-> ls]
    /\ startId = NodeId(0)
    /\ endId \in NodeIds(ZeroNodes)
    /\ pc = "dijkstra"
    /\ DijkstraInit(graph, startId)
    /\ gScore = <<>>
    /\ fScore = <<>>
    /\ resDijkstra = NoResult
    /\ resAStar = NoResult
    /\ OthersIdle

SpecZero == InitZero /\ [][Next]_vars

(***************************************************************************)
(* The App component.  A click handler or a timer callback runs to its end *)
(* and the component is rendered again before the next one runs, so each   *)
(* is one action; what a handler reads of the state is the state of the    *)
(* last render, and what a callback set up by a handler reads is what its  *)
(* closure captured at that render, except the ref and the state read in   *)
(* functional updates.  The buttons of Controls are disabled as their      *)
(* disabled attributes say.  The graphs generateRandomGraph returns are    *)
(* the ones on AppNodes nodes in a row one unit apart, at most one flagged. *)
(***************************************************************************)
AppNodes == 3
AppRadius == 2
MaxRuns == 2

Algorithms == {"DIJKSTRA", "ASTAR"}

SelectionModes == {"START", "TARGET"}

core == <<graph, searchVars, pc, pq, arrivals, dequeued, adjList, nodeCountArg,
          connectionRadius>>

AppNodeLists ==
    {[i \in 1 .. AppNodes |->
        [id |-> NodeId(i - 1), x |-> i - 1, y |-> 0, z |-> 0, isBomb |-> (i = b)]] :
        b \in 0 .. AppNodes}

GeneratedGraphs ==
    {[nodes |-> ns, links |-> RadiusLinks(ns, AppRadius, 1, 2)] : ns \in AppNodeLists}

(* Faulty variant: the flag of the selected node is left as it is.         *)
ClearBombKept(nodes, id) == nodes

(* graphData.nodes.map(n => n.id === node.id ? { ...n, isBomb: false } : n) *)
ClearBomb(nodes, id) ==
    [i \in DOMAIN nodes |->
        IF nodes[i].id = id THEN [nodes[i] EXCEPT !.isBomb = FALSE] ELSE nodes[i]]

(* A value is truthy: neither null nor undefined (the identifiers are      *)
(* non-empty strings).                                                     *)
Truthy(v) == v \notin {Null, Undefined}

(* clearInterval(timerRef.current) under if (timerRef.current).            *)
clearInterval(ivs, id) == [k \in DOMAIN ivs \ {id} |-> ivs[k]]

(* The template `${a}-${b}` naming a link, kept as the pair it is made of. *)
LinkKey(a, b) == <<a, b>>

PathLinkKeys(path) == {LinkKey(path[i], path[i + 1]) : i \in 1 .. Len(path) - 1}

resetVisualization ==
    /\ visitedNodes' = {}
    /\ visitedLinks' = {}
    /\ pathNodes' = {}
    /\ pathLinks' = {}
    /\ status' = "IDLE"
    /\ stats' = <<>>
    /\ activeNodeId' = Null
    /\ activeNodeFromId' = Null
    /\ explodedNodeId' = Null
    /\ intervals' = clearInterval(intervals, timerRef)

InitApp ==
    /\ AppIdle
    /\ SearchIdle
    /\ pc = "app"
    /\ pq = <<>>
    /\ arrivals = <<>>
    /\ dequeued = <<>>
    /\ adjList = <<>>
    /\ nodeCountArg = 0
    /\ connectionRadius = 0

(* generateGraph: the mount effect and the Randomize Graph button.         *)
generateGraph ==
    /\ status # "RUNNING"
    /\ \E newGraph \in GeneratedGraphs :
       \E startIdx \in DOMAIN newGraph.nodes, endIdx \in DOMAIN newGraph.nodes :
          /\ endIdx # startIdx
          /\ graphData' = [newGraph EXCEPT !.nodes[startIdx].isBomb = FALSE,
                                           !.nodes[endIdx].isBomb = FALSE]
          /\ startNode' = newGraph.nodes[startIdx].id
          /\ endNode' = newGraph.nodes[endIdx].id
    /\ resetVisualization
    /\ UNCHANGED <<activeAlgo, selectionMode, timerRef, timeouts, nextTimerId>>
    /\ UNCHANGED core

(* The two selection buttons of Controls.                                  *)
setSelectionMode ==
    /\ status # "RUNNING"
    /\ \E mode \in SelectionModes :
          selectionMode' = IF selectionMode = mode THEN Null ELSE mode
    /\ UNCHANGED <<graphData, startNode, endNode, visitedNodes, visitedLinks,
                   pathNodes, pathLinks, status, stats, activeAlgo, activeNodeId,
                   activeNodeFromId, explodedNodeId, timerRef, timeouts, intervals,
                   nextTimerId>>
    /\ UNCHANGED core

handleNodeClick ==
    /\ status # "RUNNING"
    /\ selectionMode \in SelectionModes
    /\ \E i \in DOMAIN graphData.nodes :
       \E node \in {graphData.nodes[i]} :
          /\ graphData' = [graphData EXCEPT !.nodes = ClearBomb(graphData.nodes, node.id)]
          /\ IF selectionMode = "START"
             THEN startNode' = node.id /\ UNCHANGED endNode
             ELSE endNode' = node.id /\ UNCHANGED startNode
    /\ selectionMode' = Null
    /\ resetVisualization
    /\ UNCHANGED <<activeAlgo, timerRef, timeouts, nextTimerId>>
    /\ UNCHANGED core

(* handleRun up to the setTimeout; the callback keeps algo and the         *)
(* graphData, startNode and endNode of the render the click was made on.   *)
handleRun ==
    /\ status # "RUNNING"
    /\ startNode # Null
    /\ endNode # Null
    /\ Len(timeouts) + nextTimerId <= MaxRuns
    /\ \E algo \in Algorithms :
          /\ activeAlgo' = algo
          /\ timeouts' = Append(timeouts, [algo |-> algo, graphData |-> graphData,
                                           startNode |-> startNode,
                                           endNode |-> endNode])
    /\ resetVisualization
    /\ UNCHANGED <<graphData, startNode, endNode, selectionMode, timerRef, nextTimerId>>
    /\ UNCHANGED core

(* The callback of the setTimeout of handleRun: the search, then           *)
(* animateAlgorithm up to the setInterval.                                 *)
animateAlgorithm ==
    /\ timeouts # <<>>
    /\ \E t \in {Head(timeouts)} :
       \E result \in {IF t.algo = "DIJKSTRA"
                      THEN runDijkstra(t.graphData, t.startNode, t.endNode)
                      ELSE runAStar(t.graphData, t.startNode, t.endNode)} :
          intervals' = (nextTimerId :> [visitedHistory |-> result.visitedHistory,
                                        path |-> result.path,
                                        cost |-> result.cost,
                                        explodedAt |-> result.explodedAt,
                                        stepIndex |-> 0]) @@ intervals
    /\ timeouts' = Tail(timeouts)
    /\ status' = "RUNNING"
    /\ timerRef' = nextTimerId
    /\ nextTimerId' = nextTimerId + 1
    /\ UNCHANGED <<graphData, startNode, endNode, visitedNodes, visitedLinks,
                   pathNodes, pathLinks, stats, activeAlgo, selectionMode,
                   activeNodeId, activeNodeFromId, explodedNodeId>>
    /\ UNCHANGED core

(* One call of the callback of the setInterval of animateAlgorithm.        *)
ReplayTick ==
    /\ \E id \in DOMAIN intervals :
       \E c \in {intervals[id]} :
          IF c.stepIndex < Len(c.visitedHistory)
          THEN \E step \in {c.visitedHistory[c.stepIndex + 1]} :
                  /\ activeNodeId' = step.id
                  /\ activeNodeFromId' = step.from
                  /\ visitedNodes' = visitedNodes \cup {step.id}
                  /\ visitedLinks' = IF Truthy(step.from)
                                     THEN visitedLinks \cup {LinkKey(step.from, step.id)}
                                     ELSE visitedLinks
                  /\ intervals' = [intervals EXCEPT ![id].stepIndex = @ + 1]
                  /\ UNCHANGED <<pathNodes, pathLinks, status, stats, explodedNodeId>>
          ELSE /\ intervals' = clearInterval(intervals, timerRef)
               /\ activeNodeId' = Null
               /\ activeNodeFromId' = Null
               /\ IF Truthy(c.explodedAt)
                  THEN /\ explodedNodeId' = c.explodedAt
                       /\ status' = "EXPLODED"
                       /\ UNCHANGED <<pathNodes, pathLinks, stats>>
                  ELSE /\ pathNodes' = Range(c.path)
                       /\ pathLinks' = PathLinkKeys(c.path)
                       /\ stats' = <<[cost |-> c.cost,
                                      visitedCount |-> Len(c.visitedHistory)]>>
                       /\ status' = "FINISHED"
                       /\ UNCHANGED explodedNodeId
               /\ UNCHANGED <<visitedNodes, visitedLinks>>
    /\ UNCHANGED <<graphData, startNode, endNode, activeAlgo, selectionMode, timerRef,
                   timeouts, nextTimerId>>
    /\ UNCHANGED core

(* The Reset Visualization button.                                         *)
onReset ==
    /\ status \notin {"RUNNING", "IDLE"}
    /\ resetVisualization
    /\ UNCHANGED <<graphData, startNode, endNode, activeAlgo, selectionMode, timerRef,
                   timeouts, nextTimerId>>
    /\ UNCHANGED core

NextApp ==
    \/ generateGraph
    \/ setSelectionMode
    \/ handleNodeClick
    \/ handleRun
    \/ animateAlgorithm
    \/ ReplayTick
    \/ onReset

SpecApp == InitApp /\ [][NextApp]_vars

(***************************************************************************)
(* Graph theory used to state the properties.  These definitions read the  *)
(* input only: the adjacency is taken from the link list itself.           *)
(***************************************************************************)
Ids == GraphIds(graph)

LinkWeights(a, b) ==
    {graph.links[i].distance : i \in {j \in DOMAIN graph.links :
        \/ graph.links[j].source = a /\ graph.links[j].target = b
        \/ graph.links[j].source = b /\ graph.links[j].target = a}}

Linked(a, b) == a \in Ids /\ b \in Ids /\ LinkWeights(a, b) # {}

MinOf(S) == CHOOSE m \in S : \A x \in S : m <= x

Flagged == {u \in Ids : NodeOf(graph, u).isBomb}

Hazards == Flagged \ {startId, endId}

IsInjective(p) == \A i, j \in DOMAIN p : p[i] = p[j] => i = j

SimplePaths(s, t) ==
    {p \in UNION {[1 .. k -> Ids] : k \in 1 .. Cardinality(Ids)} :
        /\ p[1] = s
        /\ p[Len(p)] = t
        /\ IsInjective(p)
        /\ \A i \in 1 .. Len(p) - 1 : Linked(p[i], p[i + 1])}

RECURSIVE PathCost(_)
PathCost(p) ==
    IF Len(p) <= 1 THEN 0
    ELSE MinOf(LinkWeights(p[1], p[2])) + PathCost(Tail(p))

Reachable(s, t) == SimplePaths(s, t) # {}

TrueMinCost(s, t) == MinOf({PathCost(p) : p \in SimplePaths(s, t)})

MinPaths(s, t) == {p \in SimplePaths(s, t) : PathCost(p) = TrueMinCost(s, t)}

Aborted(res) ==
    /\ res.returned
    /\ res.explodedAt # Undefined
    /\ res.path = <<>>
    /\ res.cost = 0

NoPath(res) ==
    /\ res.returned
    /\ res.explodedAt = Undefined
    /\ res.path = <<>>
    /\ res.cost = 0

(***************************************************************************)
(* C1 as stated: on every graph whose minimum-weight start-to-end paths    *)
(* carry no hazard node, the cost runDijkstra returns is the true minimum  *)
(* path cost found by brute force over all simple paths.                   *)
(***************************************************************************)
C1_CostOptimalWhenMinPathHazardFree ==
    (/\ resDijkstra.returned
     /\ Reachable(startId, endId)
     /\ \A p \in MinPaths(startId, endId) : Range(p) \cap Hazards = {})
    => resDijkstra.cost = TrueMinCost(startId, endId)

(***************************************************************************)
(* C1 amended: whenever end is reachable and runDijkstra does not abort on *)
(* a hazard, the cost it returns is the true minimum path cost of the      *)
(* whole graph; a hazard settled before end aborts the search, cost 0.     *)
(***************************************************************************)
C1_CostOptimalUnlessAborted ==
    (/\ resDijkstra.returned
     /\ Reachable(startId, endId))
    => \/ /\ resDijkstra.explodedAt = Undefined
          /\ resDijkstra.cost = TrueMinCost(startId, endId)
       \/ /\ resDijkstra.explodedAt \in Hazards
          /\ resDijkstra.cost = 0

C1_Witness ==
    /\ resDijkstra.returned
    /\ resDijkstra.explodedAt = Undefined
    /\ Len(resDijkstra.path) = 3
    /\ \E p \in SimplePaths(startId, endId) : PathCost(p) > resDijkstra.cost

(***************************************************************************)
(* C2: a result of either search with explodedAt set has an empty path and *)
(* cost 0, explodedAt is a node flagged isBomb, and the last step of its   *)
(* visitedHistory is the step of that node.                                *)
(***************************************************************************)
ExplodedShape(res) ==
    (res.returned /\ res.explodedAt # Undefined)
    => /\ res.path = <<>>
       /\ res.cost = 0
       /\ res.explodedAt \in Flagged
       /\ res.visitedHistory # <<>>
       /\ res.visitedHistory[Len(res.visitedHistory)].id = res.explodedAt

C2_ExplodedResultShape == ExplodedShape(resDijkstra) /\ ExplodedShape(resAStar)

C2_Witness ==
    /\ pc = "done"
    /\ resDijkstra.explodedAt # Undefined
    /\ resAStar.explodedAt # Undefined
    /\ Len(resDijkstra.visitedHistory) >= 2
    /\ Len(resAStar.visitedHistory) >= 2

(***************************************************************************)
(* C3: on the line graph start - B - end with B flagged both searches      *)
(* return empty path, cost 0 and explodedAt = B; and whenever end is       *)
(* reachable but only through hazard nodes, both searches abort.           *)
(***************************************************************************)
IsHazardLine ==
    /\ Len(graph.nodes) = 3
    /\ graph.links = <<[source |-> NodeId(0), target |-> NodeId(1), distance |-> 1],
                       [source |-> NodeId(1), target |-> NodeId(2), distance |-> 1]>>
    /\ startId = NodeId(0)
    /\ endId = NodeId(2)
    /\ NodeId(1) \in Flagged

OnlyThroughHazards ==
    /\ Reachable(startId, endId)
    /\ \A p \in SimplePaths(startId, endId) : Range(p) \cap Hazards # {}

C3_HazardShortCircuit ==
    pc = "done" =>
        /\ OnlyThroughHazards => Aborted(resDijkstra) /\ Aborted(resAStar)
        /\ IsHazardLine => /\ resDijkstra.explodedAt = NodeId(1)
                           /\ resAStar.explodedAt = NodeId(1)

C3_Witness ==
    /\ pc = "done"
    /\ IsHazardLine
    /\ Aborted(resDijkstra)
    /\ Aborted(resAStar)

(***************************************************************************)
(* C4: explodedAt is never the start or the end node, and when no node     *)
(* other than start and end is flagged a reachable end yields a path,      *)
(* flagged start and end included.                                         *)
(***************************************************************************)
NeverExplodesAtEnds(res) ==
    res.returned => res.explodedAt \notin {startId, endId}

C4_StartEndExempt ==
    /\ NeverExplodesAtEnds(resDijkstra)
    /\ NeverExplodesAtEnds(resAStar)
    /\ (pc = "done" /\ Hazards = {} /\ Reachable(startId, endId))
       => /\ resDijkstra.path # <<>>
          /\ resAStar.path # <<>>
          /\ resDijkstra.explodedAt = Undefined
          /\ resAStar.explodedAt = Undefined

C4_Witness ==
    /\ pc = "done"
    /\ startId # endId
    /\ {startId, endId} \subseteq Flagged
    /\ Len(resDijkstra.path) >= 2
    /\ Len(resAStar.path) >= 2

(***************************************************************************)
(* C5: a non-empty path of either result starts at startId, ends at endId, *)
(* joins neighbours only, and the weights of its links sum to the cost.    *)
(***************************************************************************)
PathShape(res) ==
    (res.returned /\ res.path # <<>>)
    => /\ res.path[1] = startId
       /\ res.path[Len(res.path)] = endId
       /\ \A i \in 1 .. Len(res.path) - 1 : Linked(res.path[i], res.path[i + 1])
       /\ res.cost = PathCost(res.path)

C5_PathIsWalkOfReportedCost == PathShape(resDijkstra) /\ PathShape(resAStar)

C5_Witness ==
    /\ pc = "done"
    /\ Len(resDijkstra.path) = 3
    /\ Len(resAStar.path) = 3
    /\ resDijkstra.cost = 2
    /\ resAStar.cost = 2

(***************************************************************************)
(* C6: on a graph without flagged nodes whose link weights are the         *)
(* distances between the linked positions, both searches return the same   *)
(* cost, the minimum one, and both return a path or both return none.      *)
(***************************************************************************)
IsMetric ==
    \A i \in DOMAIN graph.links :
        graph.links[i].distance =
            getDistance(NodeOf(graph, graph.links[i].source),
                        NodeOf(graph, graph.links[i].target))

C6_SearchesAgreeOnMetricGraphs ==
    (pc = "done" /\ Flagged = {} /\ IsMetric)
    => /\ resDijkstra.cost = resAStar.cost
       /\ (resDijkstra.path = <<>>) <=> (resAStar.path = <<>>)
       /\ (resDijkstra.path # <<>>) <=> Reachable(startId, endId)
       /\ Reachable(startId, endId) => resAStar.cost = TrueMinCost(startId, endId)

C6_Witness ==
    /\ pc = "done"
    /\ Flagged = {}
    /\ IsMetric
    /\ resDijkstra.cost = 2
    /\ resAStar.cost = 2
    /\ resDijkstra.path # resAStar.path
    /\ \E p \in SimplePaths(startId, endId) : PathCost(p) > 2

(***************************************************************************)
(* C7: with a consistent heuristic the g-score of end when end is first    *)
(* extracted by runAStar is the minimum start-to-end distance, hence the   *)
(* cost of every non-empty path it returns is minimal, hazards or not.     *)
(***************************************************************************)
H(id) == getDistance(NodeOf(graph, id), NodeOf(graph, endId))

IsConsistent ==
    \A i \in DOMAIN graph.links :
        LET l == graph.links[i]
        IN /\ H(l.source) - H(l.target) <= l.distance
           /\ H(l.target) - H(l.source) <= l.distance

C7_AStarOptimalWhenConsistent ==
    /\ (pc = "astarPath" /\ IsConsistent) => gScore[endId] = TrueMinCost(startId, endId)
    /\ (resAStar.returned /\ resAStar.path # <<>> /\ IsConsistent)
       => resAStar.cost = TrueMinCost(startId, endId)

C7_Witness ==
    /\ pc = "astarPath"
    /\ IsConsistent
    /\ Hazards # {}
    /\ H(startId) = 1
    /\ gScore[endId] = 1
    /\ \E p \in SimplePaths(startId, endId) : PathCost(p) > 1

(***************************************************************************)
(* C8: no node identifier occurs twice in a visitedHistory, at any moment  *)
(* of either search and in both results, although the queue can hold and   *)
(* return the same identifier several times.                               *)
(***************************************************************************)
NoRepeatedStep(history) ==
    \A i, j \in DOMAIN history : history[i].id = history[j].id => i = j

C8_VisitedAtMostOnce ==
    /\ NoRepeatedStep(visitedHistory)
    /\ NoRepeatedStep(resDijkstra.visitedHistory)
    /\ NoRepeatedStep(resAStar.visitedHistory)

C8_Witness ==
    /\ pc = "astar"
    /\ ~isEmpty(pq)
    /\ Head(pq).id \in visitedSet
    /\ Head(pq).id # endId
    /\ Len(visitedHistory) >= 2

(***************************************************************************)
(* C9: the first step of a visitedHistory is the start node with from =    *)
(* null; the from of every later step is the id of an earlier step and a   *)
(* neighbour of the step's node.                                           *)
(***************************************************************************)
StepsWellFounded(history) ==
    \A i \in DOMAIN history :
        IF i = 1
        THEN history[i] = [id |-> startId, from |-> Null]
        ELSE /\ \E j \in 1 .. i - 1 : history[j].id = history[i].from
             /\ Linked(history[i].from, history[i].id)

C9_StepsComeFromEarlierNeighbours ==
    /\ StepsWellFounded(visitedHistory)
    /\ StepsWellFounded(resDijkstra.visitedHistory)
    /\ StepsWellFounded(resAStar.visitedHistory)

C9_Witness ==
    /\ pc = "done"
    /\ Len(resDijkstra.visitedHistory) = 3
    /\ Len(resAStar.visitedHistory) = 3
    /\ resDijkstra.visitedHistory[3].from = resDijkstra.visitedHistory[2].id
    /\ resAStar.visitedHistory[3].from = resAStar.visitedHistory[2].id

(***************************************************************************)
(* C10 as stated: when start and end lie in different connected            *)
(* components both searches return empty path, cost 0 and no explodedAt.   *)
(***************************************************************************)
C10_DisconnectedIsNoPath ==
    (pc = "done" /\ ~Reachable(startId, endId))
    => NoPath(resDijkstra) /\ NoPath(resAStar)

(***************************************************************************)
(* C10 amended: when start and end lie in different connected components   *)
(* both searches return empty path and cost 0, and explodedAt is unset     *)
(* exactly when the component of start holds no hazard node; otherwise it  *)
(* is a hazard node of that component.                                     *)
(***************************************************************************)
Component(s) == {v \in Ids : Reachable(s, v)}

DisconnectedOutcome(res) ==
    /\ res.path = <<>>
    /\ res.cost = 0
    /\ IF Component(startId) \cap Hazards = {}
       THEN res.explodedAt = Undefined
       ELSE res.explodedAt \in Component(startId) \cap Hazards

C10_DisconnectedIsNoPathOrAbort ==
    (pc = "done" /\ ~Reachable(startId, endId))
    => DisconnectedOutcome(resDijkstra) /\ DisconnectedOutcome(resAStar)

C10_Witness ==
    /\ pc = "done"
    /\ ~Reachable(startId, endId)
    /\ Cardinality(Component(startId)) = 2
    /\ Cardinality(Component(endId)) = 1
    /\ NoPath(resDijkstra)
    /\ NoPath(resAStar)

(***************************************************************************)
(* C11: when the start or the end identifier names no node of the graph    *)
(* (the empty graph and startId = endId included), each search returns the *)
(* uniform no-path result: empty path, cost 0, no explodedAt.              *)
(***************************************************************************)
IsMissing(id) == id \notin Ids

UniformNoPath(res) ==
    res.returned => res.path = <<>> /\ res.cost = 0 /\ res.explodedAt = Undefined

C11_MissingIdIsNoPath ==
    (IsMissing(startId) \/ IsMissing(endId)) =>
        UniformNoPath(resDijkstra) /\ UniformNoPath(resAStar)

(***************************************************************************)
(* C12: a search never returns a path with more identifiers than the graph *)
(* has nodes, nor a path whose first identifier is not the start.          *)
(***************************************************************************)
PathWithinGraph(res) ==
    (res.returned /\ res.path # <<>>) =>
        /\ Len(res.path) <= Len(graph.nodes)
        /\ res.path[1] = startId

C12_PathBoundedAndHeadedByStart ==
    PathWithinGraph(resDijkstra) /\ PathWithinGraph(resAStar)

(***************************************************************************)
(* C13: on every finite graph with non-negative link weights both searches *)
(* terminate.  Every iteration of a main loop that stays in the loop       *)
(* either lowers a score and raises none, or leaves the scores alone and   *)
(* shortens the queue, so the loop ends after finitely many extractions;   *)
(* the walk back from the end has at most node-count + 1 identifiers; and  *)
(* the run of runDijkstra followed by runAStar reaches the return of       *)
(* runAStar and stays there.                                               *)
(***************************************************************************)
Lowered(score, score2) ==
    /\ DOMAIN score2 = DOMAIN score
    /\ \A k \in DOMAIN score : score2[k] <= score[k]
    /\ \E k \in DOMAIN score : score2[k] < score[k]

LoopProgress ==
    /\ (pc = "dijkstra" /\ pc' = "dijkstra") =>
           \/ Lowered(distances, distances')
           \/ distances' = distances /\ Len(pq') < Len(pq)
    /\ (pc = "astar" /\ pc' = "astar") =>
           \/ Lowered(gScore, gScore')
           \/ gScore' = gScore /\ Len(pq') < Len(pq)

WalkBounded ==
    pc \in {"dijkstraPath", "astarPath"} =>
        Len(WalkBack(previous, <<>>, endId, Len(graph.nodes))) <= Len(graph.nodes) + 1

C13_SearchesTerminate ==
    /\ [][LoopProgress]_vars
    /\ []WalkBounded
    /\ <>[](pc = "done" /\ resDijkstra.returned /\ resAStar.returned)

C13_Witness ==
    /\ pc = "done"
    /\ Len(graph.nodes) = MaxNodes
    /\ Len(graph.links) = MaxLinks
    /\ Len(resDijkstra.visitedHistory) = MaxNodes
    /\ Len(resAStar.visitedHistory) = MaxNodes
    /\ resAStar.path # <<>>

(***************************************************************************)
(* C14: dequeue returns a pending item of minimum priority, and among the  *)
(* pending items of that priority the one enqueued first.                  *)
(***************************************************************************)
FirstMin(seq) ==
    LET i == CHOOSE k \in DOMAIN seq :
                 /\ \A j \in DOMAIN seq : seq[k].priority <= seq[j].priority
                 /\ \A j \in 1 .. k - 1 : seq[j].priority > seq[k].priority
    IN seq[i]

DequeueIsFirstMin ==
    (pc' = "dequeued" /\ arrivals # <<>>) => dequeued' = <<FirstMin(arrivals)>>

C14_DequeueMinimumFifo == [][DequeueIsFirstMin]_vars

C14_Witness ==
    /\ pc = "dequeued"
    /\ dequeued # <<>>
    /\ \E i \in DOMAIN pq :
          /\ pq[i].priority = dequeued[1].priority
          /\ pq[i].id # dequeued[1].id
    /\ \E i \in DOMAIN pq : pq[i].priority > dequeued[1].priority

(***************************************************************************)
(* C15: the queue never drops or merges an item: the items it holds are,   *)
(* as a multiset, the items enqueued and not yet dequeued (two items of    *)
(* one identifier are both kept); isEmpty holds exactly when nothing is    *)
(* pending; dequeue on an empty queue returns undefined and leaves the     *)
(* queue empty.                                                            *)
(***************************************************************************)
Count(seq, x) == Cardinality({i \in DOMAIN seq : seq[i] = x})

SamePending ==
    /\ Len(pq) = Len(arrivals)
    /\ \A x \in Range(arrivals) : Count(pq, x) = Count(arrivals, x)

EmptyDequeue ==
    (pq = <<>> /\ pc' = "dequeued") => (dequeued' = <<>> /\ pq' = <<>>)

C15_QueueKeepsEveryItem ==
    /\ []SamePending
    /\ [](isEmpty(pq) <=> arrivals = <<>>)
    /\ [][EmptyDequeue]_vars

C15_Witness ==
    /\ pc = "dequeued"
    /\ dequeued # <<>>
    /\ \E i, j \in DOMAIN pq : i < j /\ pq[i].id = pq[j].id

(***************************************************************************)
(* C16: the adjacency index is symmetric: the entry (B, w) occurs in the   *)
(* list of A as many times as the entry (A, w) occurs in the list of B,    *)
(* whichever endpoint each link stores as its source.                      *)
(***************************************************************************)
Entry(id, w) == [id |-> id, weight |-> w]

C16_AdjacencySymmetric ==
    pc = "built" =>
        \A a \in DOMAIN adjList, b \in DOMAIN adjList, w \in 0 .. MaxWeight :
            Count(adjList[a], Entry(b, w)) = Count(adjList[b], Entry(a, w))

C16_Witness ==
    /\ pc = "built"
    /\ \E i, j \in DOMAIN graph.links :
          /\ i # j
          /\ graph.links[i].source \in Ids
          /\ graph.links[i].target \in Ids
          /\ graph.links[i].source # graph.links[i].target
          /\ graph.links[j].source = graph.links[i].target
          /\ graph.links[j].target = graph.links[i].source
          /\ graph.links[j].distance = graph.links[i].distance
          /\ Count(adjList[graph.links[i].source],
                   Entry(graph.links[i].target, graph.links[i].distance)) = 2

(***************************************************************************)
(* C17: buildAdjacencyList returns an index with one entry per node        *)
(* identifier of the graph and no other key; a link one of whose endpoints *)
(* is no node of the graph adds nothing to any list and causes no fault.   *)
(***************************************************************************)
LinksWithin == {i \in DOMAIN graph.links :
                   graph.links[i].source \in Ids /\ graph.links[i].target \in Ids}

RECURSIVE TotalEntries(_, _)
TotalEntries(index, keys) ==
    IF keys = {} THEN 0
    ELSE LET k == CHOOSE x \in keys : TRUE
         IN Len(index[k]) + TotalEntries(index, keys \ {k})

C17_EntryPerNodeStrayLinksIgnored ==
    pc # "build" =>
        /\ pc = "built"
        /\ DOMAIN adjList = Ids
        /\ TotalEntries(adjList, DOMAIN adjList) = 2 * Cardinality(LinksWithin)

(***************************************************************************)
(* C18: the links generateRandomGraph(N, R) returns are exactly one link   *)
(* per unordered pair of distinct nodes whose distance is strictly smaller *)
(* than R, weighted with that distance: no link joins a node to itself, no *)
(* pair is linked twice, no pair at distance R or more is linked.          *)
(***************************************************************************)
Joining(a, b) ==
    {i \in DOMAIN graph.links :
        \/ graph.links[i].source = a /\ graph.links[i].target = b
        \/ graph.links[i].source = b /\ graph.links[i].target = a}

C18_LinksAreThePairsWithinRadius ==
    pc = "generated" =>
        /\ \A i \in DOMAIN graph.links :
              /\ graph.links[i].source \in Ids
              /\ graph.links[i].target \in Ids
              /\ graph.links[i].source # graph.links[i].target
        /\ \A i, j \in DOMAIN graph.nodes :
              i < j =>
                LET dist == getDistance(graph.nodes[i], graph.nodes[j])
                    joins == Joining(graph.nodes[i].id, graph.nodes[j].id)
                IN IF dist < connectionRadius
                   THEN /\ Cardinality(joins) = 1
                        /\ \A k \in joins : graph.links[k].distance = dist
                   ELSE joins = {}

C18_Witness ==
    /\ pc = "generated"
    /\ connectionRadius > 0
    /\ \E i, j \in DOMAIN graph.nodes :
          /\ i < j
          /\ getDistance(graph.nodes[i], graph.nodes[j]) = connectionRadius
    /\ \E i, j \in DOMAIN graph.nodes :
          /\ i < j
          /\ getDistance(graph.nodes[i], graph.nodes[j]) = connectionRadius - 1
          /\ Joining(graph.nodes[i].id, graph.nodes[j].id) # {}

(***************************************************************************)
(* C20: for every N > 0, generateRandomGraph(N, R) returns exactly N       *)
(* nodes, and their identifiers are pairwise distinct.                     *)
(***************************************************************************)
C20_ExactlyNNodesDistinctIds ==
    (pc = "generated" /\ nodeCountArg > 0) =>
        /\ Len(graph.nodes) = nodeCountArg
        /\ \A i, j \in DOMAIN graph.nodes :
              graph.nodes[i].id = graph.nodes[j].id => i = j

C20_Witness ==
    /\ pc = "generated"
    /\ nodeCountArg = GenNodes
    /\ Cardinality(Ids) = GenNodes

(***************************************************************************)
(* C21: early exit on the end node.  In the history of a search, while it  *)
(* runs and in its result, the end node occurs only as the last step; once *)
(* the end has been extracted nothing more is recorded, relaxed or         *)
(* enqueued; a result with a path has the end as its last step.            *)
(***************************************************************************)
EndOnlyLast(history) ==
    \A i \in DOMAIN history : history[i].id = endId => i = Len(history)

EndsAtEnd(res) ==
    res.path # <<>> =>
        /\ res.visitedHistory # <<>>
        /\ res.visitedHistory[Len(res.visitedHistory)].id = endId

NothingAfterEnd ==
    pc \in {"dijkstraPath", "astarPath"} =>
        UNCHANGED <<distances, gScore, fScore, previous, pq, visitedSet, visitedHistory>>

C21_EarlyExitOnEnd ==
    /\ [](EndOnlyLast(visitedHistory))
    /\ [](EndOnlyLast(resDijkstra.visitedHistory) /\ EndOnlyLast(resAStar.visitedHistory))
    /\ [](EndsAtEnd(resDijkstra) /\ EndsAtEnd(resAStar))
    /\ [][NothingAfterEnd]_vars

C21_Witness ==
    /\ pc = "done"
    /\ resDijkstra.path # <<>>
    /\ resAStar.path # <<>>
    /\ Len(resDijkstra.visitedHistory) < Len(graph.nodes)
    /\ pq # <<>>
    /\ startId # endId

(***************************************************************************)
(* C22: in every result of either search a hazard (a node flagged isBomb   *)
(* other than start and end) is not on the path, is not the from of a      *)
(* step, occurs in visitedHistory only as the last step, and explodedAt is *)
(* set exactly when visitedHistory contains a hazard.                      *)
(***************************************************************************)
HazardSteps(history) == {i \in DOMAIN history : history[i].id \in Hazards}

HazardsOnlyStop(res) ==
    res.returned =>
        /\ Range(res.path) \cap Hazards = {}
        /\ \A i \in DOMAIN res.visitedHistory :
              res.visitedHistory[i].from \notin Hazards
        /\ HazardSteps(res.visitedHistory) \subseteq {Len(res.visitedHistory)}
        /\ (res.explodedAt # Undefined) <=> (HazardSteps(res.visitedHistory) # {})

C22_HazardsOnlyStop == HazardsOnlyStop(resDijkstra) /\ HazardsOnlyStop(resAStar)

C22_Witness ==
    /\ pc = "done"
    /\ HazardSteps(resDijkstra.visitedHistory) # {}
    /\ HazardSteps(resAStar.visitedHistory) # {}
    /\ Len(resDijkstra.visitedHistory) > 1
    /\ Flagged \cap {startId, endId} # {}

(***************************************************************************)
(* C23: runDijkstra on non-negative weights records nodes in               *)
(* non-decreasing order of their distance from start; when a node is       *)
(* recorded its tentative distance is its minimum-weight distance from     *)
(* start in the whole graph, and that distance is never changed afterwards.*)
(***************************************************************************)
InDijkstra == pc \in {"dijkstra", "dijkstraPath", "dijkstraReturned"}

DijkstraHistory == IF InDijkstra THEN visitedHistory ELSE resDijkstra.visitedHistory

RecordedInOrder ==
    \A i, j \in DOMAIN DijkstraHistory :
        i < j => distances[DijkstraHistory[i].id] <= distances[DijkstraHistory[j].id]

RecordedIsFinal ==
    \A i \in DOMAIN DijkstraHistory :
        LET u == DijkstraHistory[i].id
        IN /\ Reachable(startId, u)
           /\ distances[u] = TrueMinCost(startId, u)

RecordedNeverChanges ==
    \A i \in DOMAIN DijkstraHistory :
        distances'[DijkstraHistory[i].id] = distances[DijkstraHistory[i].id]

C23_RecordedDistanceIsFinal ==
    /\ [](RecordedInOrder /\ RecordedIsFinal)
    /\ [][RecordedNeverChanges]_vars

C23_Witness ==
    /\ pc = "dijkstraReturned"
    /\ Len(visitedHistory) = 3
    /\ \E u \in Ids : /\ previous[u] \notin {Null, startId}
                       /\ Linked(startId, u)
                       /\ distances[u] < MinOf(LinkWeights(startId, u))

(***************************************************************************)
(* C24: when the heuristic is 0 for every node and end is a node of the    *)
(* graph, runAStar returns the result of runDijkstra: the same             *)
(* visitedHistory in the same order, the same path, cost and explodedAt.   *)
(***************************************************************************)
HeuristicIsZero ==
    /\ endId \in Ids
    /\ \A id \in Ids \cup {startId} : heuristic(graph, endId, id) = 0

C24_AStarIsDijkstraOnZeroHeuristic ==
    (pc = "done" /\ HeuristicIsZero) =>
        /\ resAStar.visitedHistory = resDijkstra.visitedHistory
        /\ resAStar.path = resDijkstra.path
        /\ resAStar.cost = resDijkstra.cost
        /\ resAStar.explodedAt = resDijkstra.explodedAt

(* runAStar has extracted a node it had already recorded, expanded it      *)
(* again, and has returned.                                                *)
C24_Witness ==
    /\ pc = "done"
    /\ HeuristicIsZero
    /\ pq = <<>>
    /\ Len(resAStar.visitedHistory) = 3
    /\ \E u \in Ids : /\ previous[u] \notin {Null, startId}
                       /\ Linked(startId, u)

(***************************************************************************)
(* The functions runDijkstra and runAStar return what the step-by-step     *)
(* searches return.                                                        *)
(***************************************************************************)
RunsAgreeWithSteps ==
    pc = "done" =>
        /\ resDijkstra = runDijkstra(graph, startId, endId)
        /\ resAStar = runAStar(graph, startId, endId)

(***************************************************************************)
(* C25: in the App the nodes of the current graph named by startNode and   *)
(* endNode are never flagged isBomb, and neither are the start and the end *)
(* of the graph a search launched by handleRun receives.                   *)
(***************************************************************************)
EndsNotFlagged(g, s, e) ==
    \A i \in DOMAIN g.nodes : g.nodes[i].id \in {s, e} => ~g.nodes[i].isBomb

C25_StartAndEndNeverFlagged ==
    /\ EndsNotFlagged(graphData, startNode, endNode)
    /\ \A i \in DOMAIN timeouts :
          /\ timeouts[i].startNode \in GraphIds(timeouts[i].graphData)
          /\ timeouts[i].endNode \in GraphIds(timeouts[i].graphData)
          /\ EndsNotFlagged(timeouts[i].graphData, timeouts[i].startNode,
                            timeouts[i].endNode)

(* A search is pending on a start and an end that a selection has made the *)
(* same node, in a graph with a flagged node.                              *)
C25_Witness ==
    /\ timeouts # <<>>
    /\ Head(timeouts).startNode = Head(timeouts).endNode
    /\ \E i \in DOMAIN Head(timeouts).graphData.nodes :
          Head(timeouts).graphData.nodes[i].isBomb
    /\ Head(timeouts).graphData = graphData
    /\ startNode = Head(timeouts).startNode

(***************************************************************************)
(* C26: every replay the App starts was computed on the graph, start and   *)
(* end that are current when the replay starts: when the delayed callback  *)
(* of handleRun runs its search, the graphData, startNode and endNode it   *)
(* searches are the ones of the App's state.                               *)
(***************************************************************************)
SearchesCurrentInputs ==
    (timeouts # <<>> /\ timeouts' = Tail(timeouts)) =>
        /\ Head(timeouts).graphData = graphData
        /\ Head(timeouts).startNode = startNode
        /\ Head(timeouts).endNode = endNode

C26_ReplayComputedOnCurrentInputs == [][SearchesCurrentInputs]_vars

(***************************************************************************)
(* C27: at most one replay interval timer is live and it is the one in     *)
(* timerRef; once a replay has reached FINISHED or EXPLODED, or            *)
(* resetVisualization has run (status IDLE), no timer is live, so no       *)
(* replay tick fires until the next replay starts.                         *)
(***************************************************************************)
C27_OneTimerLiveWhileRunning ==
    /\ DOMAIN intervals \subseteq {timerRef}
    /\ status # "RUNNING" => intervals = <<>>

(***************************************************************************)
(* C28: a replay reveals its visitedHistory in order, one step per tick:   *)
(* after k ticks the visited set is the set of the ids of the first k      *)
(* steps.  The tick after the last step stops the timer and ends the       *)
(* replay: with status EXPLODED, the exploded node set, no path and no     *)
(* stats when explodedAt is set, otherwise with status FINISHED, the path  *)
(* nodes and links highlighted and stats = (cost, number of steps).        *)
(* Status moves only IDLE -> RUNNING -> FINISHED or EXPLODED, and back to  *)
(* IDLE by a reset.                                                        *)
(***************************************************************************)
Revealed(c) == {c.visitedHistory[j].id : j \in 1 .. c.stepIndex}

ReplayInOrder ==
    \A id \in DOMAIN intervals :
        /\ intervals[id].stepIndex <= Len(intervals[id].visitedHistory)
        /\ visitedNodes = Revealed(intervals[id])

OneStepPerTick ==
    \A id \in DOMAIN intervals \cap DOMAIN intervals' :
        \/ intervals'[id] = intervals[id]
        \/ /\ intervals'[id] = [intervals[id] EXCEPT !.stepIndex = @ + 1]
           /\ visitedNodes' = Revealed(intervals'[id])

ReplayEnds ==
    status' \in {"FINISHED", "EXPLODED"} /\ (status' # status \/ stats' # stats) =>
        \E id \in DOMAIN intervals :
        \E c \in {intervals[id]} :
            /\ c.stepIndex = Len(c.visitedHistory)
            /\ intervals' = <<>>
            /\ visitedNodes' = Revealed(c)
            /\ IF Truthy(c.explodedAt)
               THEN /\ status' = "EXPLODED"
                    /\ explodedNodeId' = c.explodedAt
                    /\ pathNodes' = {}
                    /\ pathLinks' = {}
                    /\ stats' = <<>>
               ELSE /\ status' = "FINISHED"
                    /\ explodedNodeId' = Null
                    /\ pathNodes' = Range(c.path)
                    /\ pathLinks' = PathLinkKeys(c.path)
                    /\ stats' = <<[cost |-> c.cost,
                                   visitedCount |-> Len(c.visitedHistory)]>>

StatusMoves ==
    status' # status =>
        <<status, status'>> \in {<<"IDLE", "RUNNING">>, <<"RUNNING", "FINISHED">>,
                                 <<"RUNNING", "EXPLODED">>, <<"FINISHED", "IDLE">>,
                                 <<"EXPLODED", "IDLE">>}

C28_ReplayRevealsHistoryThenEnds ==
    /\ []ReplayInOrder
    /\ [][OneStepPerTick /\ ReplayEnds /\ StatusMoves]_vars

AppTypeOK ==
    /\ status \in {"IDLE", "RUNNING", "FINISHED", "EXPLODED"}
    /\ timerRef \in 0 .. MaxRuns
    /\ Len(timeouts) <= MaxRuns

====
